---- MODULE Spec2Model ----
(***************************************************************************)
(* A model of app.py, the Streamlit page "Pet Adoption Dataset Explorer". *)
(*                                                                         *)
(* The script is a straight-line pipeline that the hosting runtime runs    *)
(* from its first line on every user interaction.  The state that lives    *)
(* across runs is the file on disk, the st.cache_data entry of load_data,  *)
(* the two slider widgets and the elements shown on the page.  Everything  *)
(* else is a script variable that is unbound when a run starts.            *)
(*                                                                         *)
(* Numbers.  The statistics are kept exact: a float is the pair (num, den) *)
(* standing for num / sqrt(den), NaN is a value of its own.  Quantities    *)
(* that need an eigen-decomposition (the principal axes) stay symbolic:    *)
(* they are named by the covariance matrix they are the eigen-system of.   *)
(***************************************************************************)
EXTENDS Integers, Sequences, FiniteSets, TLC

\* ------------------------------------------------------------------ bounds
MaxDataRows == 6      \* longest CSV the environment writes (data rows)
MaxRenders == 3       \* script runs in one process

\* ------------------------------------------------- constants of the widgets
MinRows == 5
MaxRows == 50
DefaultRows == 10
MinRowsStd == 5
MaxRowsStd == 50
DefaultRowsStd == 10
NComponents == 2

\* ------------------------------------------------------------------ values
None == <<>>
Some(x) == <<x>>

Min(a, b) == IF a < b THEN a ELSE b

IntCell(i) == [k |-> "int", i |-> i, s |-> ""]
StrCell(s) == [k |-> "str", i |-> 0, s |-> s]
NA == [k |-> "na", i |-> 0, s |-> ""]

Float(num, den) == [k |-> "float", num |-> num, den |-> den]
NaN == [k |-> "nan", num |-> 0, den |-> 0]

RECURSIVE SumSeq(_)
SumSeq(s) == IF Len(s) = 0 THEN 0 ELSE Head(s) + SumSeq(Tail(s))

\* ------------------------------------------------- the CSV files considered
\* Four layouts of pet_adoption_dataset.csv; row i of each is given by rule so
\* that a file of any length exists.
Tables == {"pets", "one_numeric", "text_only", "gaps"}

CsvHeader(t) ==
    CASE t = "pets" -> <<"species", "age", "weight", "fee", "status">>
      [] t = "one_numeric" -> <<"name", "age">>
      [] t = "text_only" -> <<"name", "status">>
      [] t = "gaps" -> <<"age", "weight", "species">>

CsvRow(t, i) ==
    CASE t = "pets" ->
            << StrCell(IF i % 2 = 1 THEN "cat" ELSE "dog"),
               IntCell((i * i) % 5),
               IntCell(i % 3),
               IntCell(2),
               StrCell(IF i % 3 = 0 THEN "adopted" ELSE "waiting") >>
      [] t = "one_numeric" ->
            << StrCell(IF i % 2 = 1 THEN "rex" ELSE "tom"), IntCell(3) >>
      [] t = "text_only" ->
            << StrCell(IF i % 2 = 1 THEN "rex" ELSE "tom"),
               StrCell(IF i % 3 = 0 THEN "adopted" ELSE "waiting") >>
      [] t = "gaps" ->
            << IntCell(i % 3),
               IF i = 2 THEN NA ELSE IntCell(i),
               StrCell(IF i % 2 = 1 THEN "cat" ELSE "dog") >>

OkFile(t, n) == [state |-> "ok", table |-> t, n |-> n]
MissingFile == [state |-> "missing", table |-> "", n |-> 0]
MalformedFile == [state |-> "malformed", table |-> "", n |-> 0]

FileStates ==
    {OkFile(t, n) : t \in Tables, n \in 0..MaxDataRows}
        \cup {MissingFile, MalformedFile}

\* ---------------------------------------------------------------- pandas
\* The dtype read_csv infers for a column from its cells.
InferDtype(cells) ==
    IF Len(cells) = 0 THEN "object"
    ELSE IF \E r \in 1..Len(cells) : cells[r].k = "str" THEN "object"
    ELSE IF \E r \in 1..Len(cells) : cells[r].k = "na" THEN "float64"
    ELSE "int64"

\* pd.read_csv on a readable, well-formed file.
read_csv(f) ==
    LET header == CsvHeader(f.table)
        rows == [r \in 1..f.n |-> CsvRow(f.table, r)]
    IN  [columns |-> header,
         dtypes |-> [c \in 1..Len(header) |->
                        InferDtype([r \in 1..f.n |-> rows[r][c]])],
         rows |-> rows]

NRows(frame) == Len(frame.rows)
NCols(frame) == Len(frame.columns)

ColIndex(frame, name) ==
    CHOOSE c \in 1..Len(frame.columns) : frame.columns[c] = name

Column(frame, c) == [r \in 1..NRows(frame) |-> frame.rows[r][c]]

\* A slice taken from the wrong end of the table.
head_last(frame, n) ==
    [frame EXCEPT !.rows =
        SubSeq(frame.rows, Len(frame.rows) - Min(n, Len(frame.rows)) + 1, Len(frame.rows))]

\* DataFrame.head(n), n >= 0.
head(frame, n) ==
    [frame EXCEPT !.rows = SubSeq(frame.rows, 1, Min(n, Len(frame.rows)))]

\* df.select_dtypes(include=...).columns.tolist()
select_dtypes(frame, include) ==
    LET keep(name) == frame.dtypes[ColIndex(frame, name)] \in include
    IN  SelectSeq(frame.columns, keep)

\* df[names]
Project(frame, names) ==
    [columns |-> names,
     dtypes |-> [j \in 1..Len(names) |-> frame.dtypes[ColIndex(frame, names[j])]],
     rows |-> [r \in 1..NRows(frame) |->
                 [j \in 1..Len(names) |-> frame.rows[r][ColIndex(frame, names[j])]]]]

\* The float array a numeric frame converts to.
ToFloat(cell) == IF cell.k = "int" THEN Float(cell.i, 1) ELSE NaN

to_numpy(frame) ==
    [r \in 1..NRows(frame) |-> [j \in 1..NCols(frame) |-> ToFloat(frame.rows[r][j])]]

\* The rows of a float column that hold a value, and sums over a set rs of rows.
Present(col) == {r \in 1..Len(col) : col[r].k # "nan"}

SumOver(col, rs) ==
    SumSeq([r \in 1..Len(col) |-> IF r \in rs THEN col[r].num ELSE 0])

SumProd(colA, colB, rs) ==
    SumSeq([r \in 1..Len(colA) |-> IF r \in rs THEN colA[r].num * colB[r].num ELSE 0])

\* n * sum(x^2) - sum(x)^2 over the rows rs: n^2 times the population variance.
VarNum(col, rs) ==
    Cardinality(rs) * SumProd(col, col, rs) - SumOver(col, rs) * SumOver(col, rs)

\* n * sum(xy) - sum(x) sum(y) over the rows rs.
CovNum(colA, colB, rs) ==
    Cardinality(rs) * SumProd(colA, colB, rs) - SumOver(colA, rs) * SumOver(colB, rs)

MatCol(X, j) == [r \in 1..Len(X) |-> X[r][j]]

\* DataFrame.corr(): Pearson, pairwise complete observations.
PearsonEntry(colA, colB) ==
    LET rs == Present(colA) \cap Present(colB)
        va == VarNum(colA, rs)
        vb == VarNum(colB, rs)
    IN  IF Cardinality(rs) < 2 \/ va = 0 \/ vb = 0 THEN NaN
        ELSE Float(CovNum(colA, colB, rs), va * vb)

corr(frame) ==
    LET X == to_numpy(frame)
        k == NCols(frame)
    IN  [columns |-> frame.columns,
         index |-> frame.columns,
         cells |-> [a \in 1..k |-> [b \in 1..k |->
                      PearsonEntry(MatCol(X, a), MatCol(X, b))]]]


\* ---------------------------------------------- df.describe(include="all")
Num(f) == [k |-> f.k, num |-> f.num, den |-> f.den, s |-> ""]
Txt(s) == [k |-> "str", num |-> 0, den |-> 0, s |-> s]
\* sqrt(num / den)
Root(num, den) == [k |-> "sqrt", num |-> num, den |-> den, s |-> ""]

NumericStats == <<"count", "mean", "std", "min", "25%", "50%", "75%", "max">>
ObjectStats == <<"count", "unique", "top", "freq">>
AllStats == <<"count", "unique", "top", "freq", "mean", "std",
              "min", "25%", "50%", "75%", "max">>

IsNumericDtype(d) == d \in {"int64", "float64"}

\* The k-th smallest (k from 0) of the present values of a float column.
Kth(col, k) ==
    LET rs == Present(col)
        below(x) == Cardinality({r \in rs : col[r].num < x})
        upto(x) == Cardinality({r \in rs : col[r].num <= x})
    IN  CHOOSE x \in {col[r].num : r \in rs} : below(x) <= k /\ k < upto(x)

\* Linear interpolation at q/4 of the way through the sorted values.
Quantile(col, q) ==
    LET cnt == Cardinality(Present(col))
        lo == ((cnt - 1) * q) \div 4
        rem == ((cnt - 1) * q) % 4
        a == Kth(col, lo)
        b == IF rem = 0 THEN a ELSE Kth(col, lo + 1)
    IN  Float(4 * a + rem * (b - a), 16)

NumericStat(col, stat) ==
    LET rs == Present(col)
        cnt == Cardinality(rs)
    IN  CASE stat = "count" -> Num(Float(cnt, 1))
          [] stat = "mean" ->
                IF cnt = 0 THEN Num(NaN) ELSE Num(Float(SumOver(col, rs), cnt * cnt))
          [] stat = "std" ->
                IF cnt < 2 THEN Num(NaN) ELSE Root(VarNum(col, rs), cnt * (cnt - 1))
          [] stat = "min" -> IF cnt = 0 THEN Num(NaN) ELSE Num(Float(Kth(col, 0), 1))
          [] stat = "25%" -> IF cnt = 0 THEN Num(NaN) ELSE Num(Quantile(col, 1))
          [] stat = "50%" -> IF cnt = 0 THEN Num(NaN) ELSE Num(Quantile(col, 2))
          [] stat = "75%" -> IF cnt = 0 THEN Num(NaN) ELSE Num(Quantile(col, 3))
          [] stat = "max" ->
                IF cnt = 0 THEN Num(NaN) ELSE Num(Float(Kth(col, cnt - 1), 1))
          [] OTHER -> Num(NaN)

\* value_counts() of an object column; the most frequent value comes first and
\* among equally frequent values the one met first.
ObjectStat(cells, stat) ==
    LET rs == {r \in 1..Len(cells) : cells[r].k # "na"}
        freq(r) == Cardinality({q \in rs : cells[q] = cells[r]})
        firsts == {r \in rs : \A q \in rs : cells[q] = cells[r] => r <= q}
        top == CHOOSE r \in firsts :
                  \A q \in firsts : freq(q) < freq(r) \/ (freq(q) = freq(r) /\ r <= q)
    IN  CASE stat = "count" -> Num(Float(Cardinality(rs), 1))
          [] stat = "unique" -> Num(Float(Cardinality(firsts), 1))
          [] stat = "top" -> IF rs = {} THEN Num(NaN) ELSE Txt(cells[top].s)
          [] stat = "freq" -> IF rs = {} THEN Num(NaN) ELSE Num(Float(freq(top), 1))
          [] OTHER -> Num(NaN)

describe(frame) ==
    LET hasNum == \E c \in 1..NCols(frame) : IsNumericDtype(frame.dtypes[c])
        hasObj == \E c \in 1..NCols(frame) : ~IsNumericDtype(frame.dtypes[c])
        index == IF hasNum /\ hasObj THEN AllStats
                 ELSE IF hasNum THEN NumericStats ELSE ObjectStats
    IN  [columns |-> frame.columns,
         index |-> index,
         cells |-> [i \in 1..Len(index) |-> [c \in 1..NCols(frame) |->
                      IF IsNumericDtype(frame.dtypes[c])
                      THEN NumericStat([r \in 1..NRows(frame) |->
                                           ToFloat(frame.rows[r][c])], index[i])
                      ELSE ObjectStat(Column(frame, c), index[i])]]]

\* df.dtypes.astype(str) and df.isnull().sum(), each beside the column names.
dtypes_table(frame) ==
    [c \in 1..NCols(frame) |-> <<frame.columns[c], frame.dtypes[c]>>]

missing_table(frame) ==
    [c \in 1..NCols(frame) |->
        <<frame.columns[c],
          Cardinality({r \in 1..NRows(frame) : frame.rows[r][c].k = "na"})>>]

\* ------------------------------------------------------- seaborn heatmap
\* The colour limits are the nanmin / nanmax of the data: of an empty matrix
\* they do not exist and the call raises.
heatmap_raises(matrix) == Len(matrix.columns) = 0

\* ------------------------------------------------ sklearn StandardScaler
\* check_array refuses an array without features or without samples.
scaler_raises(frame) == NCols(frame) = 0 \/ NRows(frame) = 0

\* The division carried out with a scale of zero: 0 / 0.
ScaleCellNoGuard(col, r) ==
    LET rs == Present(col)
        cnt == Cardinality(rs)
        v == VarNum(col, rs)
    IN  IF col[r].k = "nan" \/ v = 0 THEN NaN
        ELSE Float(cnt * col[r].num - SumOver(col, rs), v)

\* (x - mean) / scale, mean and variance over the present rows of the column,
\* a scale of zero replaced by 1.
ScaleCell(col, r) ==
    LET rs == Present(col)
        cnt == Cardinality(rs)
        v == VarNum(col, rs)
    IN  IF col[r].k = "nan" THEN NaN
        ELSE IF v = 0 THEN Float(cnt * col[r].num - SumOver(col, rs), cnt * cnt)
        ELSE Float(cnt * col[r].num - SumOver(col, rs), v)

scaler_fit_transform(frame) ==
    LET X == to_numpy(frame)
    IN  [r \in 1..NRows(frame) |-> [j \in 1..NCols(frame) |-> ScaleCell(MatCol(X, j), r)]]

\* pd.DataFrame(values, columns=names)
DataFrame(values, names) ==
    [columns |-> names,
     dtypes |-> [j \in 1..Len(names) |-> "float64"],
     rows |-> values]

\* ----------------------------------------------------------- sklearn PCA
\* PCA refuses NaN, and n_components above min(n_samples, n_features).
pca_raises(frame) ==
    \/ \E r \in 1..NRows(frame) : \E j \in 1..NCols(frame) : frame.rows[r][j].k = "nan"
    \/ NComponents > Min(NRows(frame), NCols(frame))

\* The centred data and its covariance: entry (a, b) is
\* num / (n^2 (n-1) sqrt(den)).  The principal axes are the eigenvectors of it.
Centred(frame, r, j) ==
    LET col == MatCol(frame.rows, j)
        all == 1..NRows(frame)
    IN  NRows(frame) * col[r].num - SumOver(col, all)

ColDen(frame, j) ==
    LET col == MatCol(frame.rows, j)
    IN  IF \E r \in 1..Len(col) : col[r].num # 0
        THEN col[CHOOSE r \in 1..Len(col) : col[r].num # 0].den
        ELSE 1

pca_fit(frame) ==
    LET n == NRows(frame)
        k == NCols(frame)
    IN  [n_samples |-> n,
         n_features |-> k,
         mean |-> [j \in 1..k |->
                     Float(SumOver(MatCol(frame.rows, j), 1..n), ColDen(frame, j) * n * n)],
         cov |-> [a \in 1..k |-> [b \in 1..k |->
                     Float(SumSeq([r \in 1..n |->
                               Centred(frame, r, a) * Centred(frame, r, b)]),
                           ColDen(frame, a) * ColDen(frame, b))]]]

\* Row r projected on the e-th principal axis of the fitted covariance.
Projection(fit, frame, r, e) ==
    [axis |-> e, of |-> [j \in 1..NCols(frame) |-> Centred(frame, r, j)]]

pca_fit_transform(frame) ==
    LET fit == pca_fit(frame)
    IN  [r \in 1..NRows(frame) |-> [e \in 1..NComponents |-> Projection(fit, frame, r, e)]]

\* pca.explained_variance_ratio_: eigenvalue e of the covariance over its trace.
explained_variance_ratio(fit) ==
    [e \in 1..NComponents |-> [eigenvalue |-> e, of |-> fit.cov, n |-> fit.n_samples]]

\* ------------------------------------------------------------------ state
VARIABLES
    file,           \* pet_adoption_dataset.csv as it is on disk
    cache,          \* the st.cache_data entry of load_data: None or Some(frame)
    fileReads,      \* how often read_csv has opened the file
    renders,        \* script runs started so far
    slider_raw,     \* widget state of the raw-preview slider
    slider_std,     \* widget state of the slider keyed "std_rows"
    status,         \* "running", "done" or "aborted"
    pc,             \* the section the run is at
    script,         \* the script's variables, unbound (None) when a run starts
    page,           \* the elements on the page; a run replaces them in place
    emitted         \* the elements the current run has sent, in order

vars == <<file, cache, fileReads, renders, slider_raw, slider_std,
          status, pc, script, page, emitted>>

Steps == <<"load", "overview", "raw_preview", "summary", "dtypes", "missing",
           "correlation", "heatmap", "standardize", "std_preview", "pca",
           "scatter">>

Elements == {"title", "shape", "columns", "raw_slider", "raw_preview", "summary",
             "dtypes", "missing", "footer", "numeric_features", "heatmap",
             "std_slider", "std_preview", "explained_variance", "scatter",
             "exception"}

\* The order in which a complete run sends its elements.
ElementOrder == <<"title", "shape", "columns", "raw_slider", "raw_preview",
                  "summary", "dtypes", "missing", "footer", "numeric_features",
                  "heatmap", "std_slider", "std_preview", "explained_variance",
                  "scatter">>

Range(s) == {s[i] : i \in 1..Len(s)}

EmptyScript ==
    [df |-> None, rows_to_show |-> None, describe_all |-> None,
     numeric_features |-> None, corr_matrix |-> None, df_standardized |-> None,
     rows_to_show_std |-> None, pca_df |-> None, explained_variance |-> None]

EmptyPage == [e \in Elements |-> None]

\* The values the user drags a slider to.
\* (the ends of its range and the default; st.slider lets no other value in
\* than min_value..max_value).
RawChoices == {v \in MinRows..MaxRows : v \in {MinRows, DefaultRows, MaxRows}}
StdChoices == {v \in MinRowsStd..MaxRowsStd : v \in {MinRowsStd, DefaultRowsStd, MaxRowsStd}}

Init ==
    /\ file \in FileStates
    /\ cache = None
    /\ fileReads = 0
    /\ renders = 1
    /\ slider_raw = DefaultRows
    /\ slider_std = DefaultRowsStd
    /\ status = "running"
    /\ pc = "load"
    /\ script = EmptyScript
    /\ page = EmptyPage
    /\ emitted = <<>>

\* ------------------------------------------------------------ the runtime
\* When a run ends the runtime drops the elements the run did not send again.
Finish(pg, em) == [e \in Elements |-> IF e \in Range(em) THEN pg[e] ELSE None]

\* The run goes on to section nxt having sent the elements sent (name, content).
Put(pg, sent) ==
    [e \in Elements |->
        IF \E i \in 1..Len(sent) : sent[i][1] = e
        THEN Some(sent[CHOOSE i \in 1..Len(sent) : sent[i][1] = e][2])
        ELSE pg[e]]

Names(sent) == [i \in 1..Len(sent) |-> sent[i][1]]

Continue(nxt, sc, sent) ==
    /\ pc' = nxt
    /\ status' = IF nxt = "end" THEN "done" ELSE "running"
    /\ script' = sc
    /\ emitted' = emitted \o Names(sent)
    /\ page' = IF nxt = "end"
               THEN Finish(Put(page, sent), emitted \o Names(sent))
               ELSE Put(page, sent)

\* The section after a section in file order.
Successor(step) ==
    IF step = Steps[Len(Steps)] THEN "end"
    ELSE Steps[1 + CHOOSE i \in 1..Len(Steps) : Steps[i] = step]

\* An exception that is shown and then ignored: the run goes on.
RaiseSwallowed(err, sc, sent) ==
    LET all == sent \o << <<"exception", err>> >>
    IN  /\ pc' = Successor(pc)
        /\ status' = IF Successor(pc) = "end" THEN "done" ELSE "running"
        /\ script' = sc
        /\ emitted' = emitted \o Names(all)
        /\ page' = Put(page, all)

\* An exception nothing catches: the runtime shows it and the run is over.
Raise(err, sc, sent) ==
    LET all == sent \o << <<"exception", err>> >>
    IN  /\ pc' = pc
        /\ status' = "aborted"
        /\ script' = sc
        /\ emitted' = emitted \o Names(all)
        /\ page' = Finish(Put(page, all), emitted \o Names(all))

\* load_data without its decorator: every call reads the file.
load_data_uncached(c, f) ==
    IF f.state = "ok"
    THEN [read |-> TRUE, raised |-> "",
          value |-> Some(read_csv(f)), store |-> Some(read_csv(f))]
    ELSE [read |-> TRUE,
          raised |-> IF f.state = "missing" THEN "FileNotFoundError" ELSE "ParserError",
          value |-> None, store |-> c]

\* @st.cache_data def load_data(): the stored value if there is one, else
\* read_csv, whose value is stored and whose exception is not.
load_data(c, f) ==
    IF c # None
    THEN [read |-> FALSE, raised |-> "", value |-> c, store |-> c]
    ELSE IF f.state = "ok"
    THEN [read |-> TRUE, raised |-> "",
          value |-> Some(read_csv(f)), store |-> Some(read_csv(f))]
    ELSE [read |-> TRUE,
          raised |-> IF f.state = "missing" THEN "FileNotFoundError" ELSE "ParserError",
          value |-> None, store |-> None]

Running(step) == status = "running" /\ pc = step

\* ------------------------------------------------------------- the script
\* lines 17-38: page configuration, title, df = load_data()
Load ==
    /\ Running("load")
    /\ LET got == load_data(cache, file)
           sent == << <<"title", "Pet Adoption Dataset Explorer">> >>
       IN  /\ cache' = got.store
           /\ fileReads' = IF got.read THEN fileReads + 1 ELSE fileReads
           /\ IF got.raised # ""
              THEN Raise(got.raised, script, sent)
              ELSE Continue("overview", [script EXCEPT !.df = got.value], sent)
    /\ UNCHANGED <<file, renders, slider_raw, slider_std>>

\* lines 43-54: shape and column names
Overview ==
    /\ Running("overview")
    /\ LET df == script.df[1]
       IN  Continue("raw_preview", script,
                    << <<"shape", <<NRows(df), NCols(df)>> >>,
                       <<"columns", df.columns>> >>)
    /\ UNCHANGED <<file, cache, fileReads, renders, slider_raw, slider_std>>

\* lines 59-68: rows_to_show = st.slider(...); st.dataframe(df.head(rows_to_show))
RawPreview ==
    /\ Running("raw_preview")
    /\ LET df == script.df[1]
           rows_to_show == slider_raw
       IN  Continue("summary", [script EXCEPT !.rows_to_show = Some(rows_to_show)],
                    << <<"raw_slider", rows_to_show>>,
                       <<"raw_preview", head(df, rows_to_show)>> >>)
    /\ UNCHANGED <<file, cache, fileReads, renders, slider_raw, slider_std>>

\* The statistics taken of the previewed rows instead of the whole table.
SummaryOfPreview ==
    /\ Running("summary")
    /\ LET df == head(script.df[1], script.rows_to_show[1])
           describe_all == describe(df)
       IN  Continue("dtypes", [script EXCEPT !.describe_all = Some(describe_all)],
                    << <<"summary", describe_all>> >>)
    /\ UNCHANGED <<file, cache, fileReads, renders, slider_raw, slider_std>>

\* lines 73-86: describe_all = df.describe(include="all")
Summary ==
    /\ Running("summary")
    /\ LET df == script.df[1]
           describe_all == describe(df)
       IN  Continue("dtypes", [script EXCEPT !.describe_all = Some(describe_all)],
                    << <<"summary", describe_all>> >>)
    /\ UNCHANGED <<file, cache, fileReads, renders, slider_raw, slider_std>>

\* lines 91-98: dtypes_df
Dtypes ==
    /\ Running("dtypes")
    /\ Continue("missing", script, << <<"dtypes", dtypes_table(script.df[1])>> >>)
    /\ UNCHANGED <<file, cache, fileReads, renders, slider_raw, slider_std>>

\* lines 103-118: missing_df, then the footer
Missing ==
    /\ Running("missing")
    /\ Continue("correlation", script,
                << <<"missing", missing_table(script.df[1])>>,
                   <<"footer", "educational purposes">> >>)
    /\ UNCHANGED <<file, cache, fileReads, renders, slider_raw, slider_std>>

\* lines 124-136: numeric_features, corr_matrix = df[numeric_features].corr()
Correlation ==
    /\ Running("correlation")
    /\ LET df == script.df[1]
           numeric_features == select_dtypes(df, {"int64", "float64"})
           corr_matrix == corr(Project(df, numeric_features))
       IN  Continue("heatmap",
                    [script EXCEPT !.numeric_features = Some(numeric_features),
                                   !.corr_matrix = Some(corr_matrix)],
                    << <<"numeric_features", numeric_features>> >>)
    /\ UNCHANGED <<file, cache, fileReads, renders, slider_raw, slider_std>>

\* lines 141-153: sns.heatmap(corr_matrix, annot=True, ...); st.pyplot(fig)
Heatmap ==
    /\ Running("heatmap")
    /\ LET corr_matrix == script.corr_matrix[1]
       IN  IF heatmap_raises(corr_matrix)
           THEN Raise("ValueError", script, <<>>)
           ELSE Continue("standardize", script, << <<"heatmap", corr_matrix>> >>)
    /\ UNCHANGED <<file, cache, fileReads, renders, slider_raw, slider_std>>

\* The numeric columns kept in df itself.
StandardizeInPlace ==
    /\ Running("standardize")
    /\ LET df == script.df[1]
           numeric_features == script.numeric_features[1]
           X == Project(df, numeric_features)
       IN  IF scaler_raises(X)
           THEN Raise("ValueError", script, <<>>)
           ELSE Continue("std_preview",
                    [script EXCEPT !.df = Some(X),
                                   !.df_standardized =
                        Some(DataFrame(scaler_fit_transform(X), numeric_features))],
                    <<>>)
    /\ UNCHANGED <<file, cache, fileReads, renders, slider_raw, slider_std>>

\* lines 158-177: df_standardized = DataFrame(scaler.fit_transform(df[numeric_features]))
Standardize ==
    /\ Running("standardize")
    /\ LET df == script.df[1]
           numeric_features == script.numeric_features[1]
           X == Project(df, numeric_features)
       IN  IF scaler_raises(X)
           THEN Raise("ValueError", script, <<>>)
           ELSE Continue("std_preview",
                    [script EXCEPT !.df_standardized =
                        Some(DataFrame(scaler_fit_transform(X), numeric_features))],
                    <<>>)
    /\ UNCHANGED <<file, cache, fileReads, renders, slider_raw, slider_std>>

\* lines 179-189: rows_to_show_std = st.slider(..., key="std_rows"); the preview
StdPreview ==
    /\ Running("std_preview")
    /\ LET df_standardized == script.df_standardized[1]
           rows_to_show_std == slider_std
       IN  Continue("pca", [script EXCEPT !.rows_to_show_std = Some(rows_to_show_std)],
                    << <<"std_slider", rows_to_show_std>>,
                       <<"std_preview", head(df_standardized, rows_to_show_std)>> >>)
    /\ UNCHANGED <<file, cache, fileReads, renders, slider_raw, slider_std>>

\* PCA fitted on df[numeric_features], the columns as they were read.
PcaOnRaw ==
    /\ Running("pca")
    /\ LET raw == Project(script.df[1], script.numeric_features[1])
           X == DataFrame(to_numpy(raw), raw.columns)
           pca_df == DataFrame(pca_fit_transform(X), <<"PC1", "PC2">>)
           explained_variance == explained_variance_ratio(pca_fit(X))
       IN  IF pca_raises(X)
           THEN Raise("ValueError", script, <<>>)
           ELSE Continue("scatter",
                    [script EXCEPT !.pca_df = Some(pca_df),
                                   !.explained_variance = Some(explained_variance)],
                    << <<"explained_variance", explained_variance>> >>)
    /\ UNCHANGED <<file, cache, fileReads, renders, slider_raw, slider_std>>

\* lines 195-226: PCA(n_components=2).fit_transform(df_standardized), pca_df,
\* the explained variance ratio
Pca ==
    /\ Running("pca")
    /\ LET df_standardized == script.df_standardized[1]
           pca_df == DataFrame(pca_fit_transform(df_standardized), <<"PC1", "PC2">>)
           explained_variance == explained_variance_ratio(pca_fit(df_standardized))
       IN  IF pca_raises(df_standardized)
           THEN Raise("ValueError", script, <<>>)
           ELSE Continue("scatter",
                    [script EXCEPT !.pca_df = Some(pca_df),
                                   !.explained_variance = Some(explained_variance)],
                    << <<"explained_variance", explained_variance>> >>)
    /\ UNCHANGED <<file, cache, fileReads, renders, slider_raw, slider_std>>

\* lines 231-245: ax.scatter(pca_df["PC1"], pca_df["PC2"]); st.pyplot(fig)
Scatter ==
    /\ Running("scatter")
    /\ LET pca_df == script.pca_df[1]
       IN  Continue("end", script,
                    << <<"scatter", [r \in 1..NRows(pca_df) |->
                                       <<pca_df.rows[r][1], pca_df.rows[r][2]>>]>> >>)
    /\ UNCHANGED <<file, cache, fileReads, renders, slider_raw, slider_std>>

\* ------------------------------------------------- the user, the file system
\* Any interaction makes the runtime run the script again from its first line.
StartRun ==
    /\ status # "running"
    /\ renders < MaxRenders
    /\ renders' = renders + 1
    /\ status' = "running"
    /\ pc' = "load"
    /\ script' = EmptyScript
    /\ emitted' = <<>>
    /\ UNCHANGED <<file, cache, fileReads, page>>

\* Both sliders bound to one widget state.
MoveBothSliders ==
    /\ page["raw_slider"] # None
    /\ \E v \in RawChoices \ {slider_raw} : slider_raw' = v /\ slider_std' = v
    /\ StartRun

MoveRawSlider ==
    /\ page["raw_slider"] # None
    /\ \E v \in RawChoices \ {slider_raw} : slider_raw' = v
    /\ slider_std' = slider_std
    /\ StartRun

MoveStdSlider ==
    /\ page["std_slider"] # None
    /\ \E v \in StdChoices \ {slider_std} : slider_std' = v
    /\ slider_raw' = slider_raw
    /\ StartRun

Rerun ==
    /\ UNCHANGED <<slider_raw, slider_std>>
    /\ StartRun

\* Between two runs somebody deletes or damages the file, appends a row to it,
\* or puts a full-length file where none could be read.
Edits(f) ==
    IF f.state = "ok"
    THEN {MissingFile, MalformedFile}
            \cup {OkFile(f.table, n) : n \in {f.n + 1} \cap (0..MaxDataRows)}
    ELSE {OkFile(t, MaxDataRows) : t \in Tables}

EditFile ==
    /\ status # "running"
    /\ \E f \in Edits(file) : file' = f
    /\ UNCHANGED <<cache, fileReads, renders, slider_raw, slider_std,
                   status, pc, script, page, emitted>>

Next ==
    \/ Load
    \/ Overview
    \/ RawPreview
    \/ Summary
    \/ Dtypes
    \/ Missing
    \/ Correlation
    \/ Heatmap
    \/ Standardize
    \/ StdPreview
    \/ Pca
    \/ Scatter
    \/ MoveRawSlider
    \/ MoveStdSlider
    \/ Rerun
    \/ EditFile

Spec == Init /\ [][Next]_vars

\* ------------------------------------------------------------- properties
NumericColumns(frame) == select_dtypes(frame, {"int64", "float64"})

Shown(e) == page[e] # None
Sent(e) == e \in Range(emitted)

\* The elements each section sends, and all a run has sent before section i.
StepElements(step) ==
    CASE step = "load" -> <<"title">>
      [] step = "overview" -> <<"shape", "columns">>
      [] step = "raw_preview" -> <<"raw_slider", "raw_preview">>
      [] step = "summary" -> <<"summary">>
      [] step = "dtypes" -> <<"dtypes">>
      [] step = "missing" -> <<"missing", "footer">>
      [] step = "correlation" -> <<"numeric_features">>
      [] step = "heatmap" -> <<"heatmap">>
      [] step = "standardize" -> <<>>
      [] step = "std_preview" -> <<"std_slider", "std_preview">>
      [] step = "pca" -> <<"explained_variance">>
      [] step = "scatter" -> <<"scatter">>

RECURSIVE SentBefore(_)
SentBefore(i) ==
    IF i <= 1 THEN <<>> ELSE SentBefore(i - 1) \o StepElements(Steps[i - 1])

IsPrefix(a, b) == Len(a) <= Len(b) /\ SubSeq(b, 1, Len(a)) = a

\* C1: with fewer than two numeric columns the correlation and the PCA section
\* end in a locally handled outcome: a run that has ended has not been aborted,
\* shows no exception, and shows every other section of the page.
C1_InsufficientFeaturesHandled ==
    (/\ cache # None
     /\ Len(NumericColumns(cache[1])) < NComponents
     /\ status # "running")
        => /\ status = "done"
           /\ ~Shown("exception")
           /\ \A e \in Range(ElementOrder) \ {"heatmap", "scatter", "explained_variance"} :
                 Shown(e)

\* C2: a preview the page shows has exactly min(N, total_rows) rows, N the
\* value of its slider, and they are the first rows of its table in order.
C2_PreviewRows ==
    /\ Shown("raw_preview") =>
          LET N == page["raw_slider"][1]
              shown == page["raw_preview"][1].rows
              all == cache[1].rows
          IN  /\ N \in MinRows..MaxRows
              /\ Len(shown) = Min(N, Len(all))
              /\ \A i \in 1..Len(shown) : shown[i] = all[i]
              /\ page["raw_preview"][1].columns = cache[1].columns
    /\ Sent("std_preview") =>
          LET N == page["std_slider"][1]
              shown == page["std_preview"][1].rows
              all == script.df_standardized[1].rows
          IN  /\ N \in MinRowsStd..MaxRowsStd
              /\ Len(all) = NRows(cache[1])
              /\ Len(shown) = Min(N, NRows(cache[1]))
              /\ \A i \in 1..Len(shown) : shown[i] = all[i]

\* A standardized preview cut to its first MinRowsStd rows beside a raw
\* preview whose slider asks for more rows than the table has.
C2_Witness ==
    /\ Sent("std_preview")
    /\ slider_std = MinRowsStd
    /\ NRows(cache[1]) > MinRowsStd
    /\ slider_raw > NRows(cache[1])
    /\ Len(page["std_preview"][1].rows) = MinRowsStd
    /\ Len(page["raw_preview"][1].rows) = NRows(cache[1])

\* C3 as stated: the file is read only during the first run of the script.
C3_ReadOnlyOnFirstRender ==
    [][fileReads' # fileReads => renders = 1]_vars

\* C3 amended: once load_data has returned a Dataset, no later step and no
\* later run reads the file again, the memoized Dataset stays what it is and
\* is the df of every run, whatever happens to the file.
C3_NoReadOnceLoaded ==
    [][cache # None =>
          /\ fileReads' = fileReads
          /\ cache' = cache
          /\ script'.df \in {None, cache}]_vars

\* A later run has got its df from the cache while the file holds other data.
C3_Witness ==
    /\ renders >= 2
    /\ status = "running"
    /\ pc = "overview"
    /\ fileReads = 1
    /\ file.state = "ok"
    /\ read_csv(file) # cache[1]
    /\ script.df = cache

\* C4: the loaded Dataset never changes: not the memoized value, not the df a
\* run works on, which is that value from the load to the end of the run.
C4_DatasetImmutable ==
    /\ [](script.df # None => script.df = cache)
    /\ [][/\ (cache # None => cache' = cache)
          /\ (script.df # None /\ script'.df # None => script'.df = script.df)]_vars

\* A complete run: every derived table exists and df is still the Dataset.
C4_Witness ==
    /\ status = "done"
    /\ script.describe_all # None
    /\ script.corr_matrix # None
    /\ script.df_standardized # None
    /\ script.pca_df # None
    /\ script.df = cache
    /\ NRows(cache[1]) >= NComponents

\* C5: a run that is over has either sent every element in order, or has
\* stopped at the section that raised, with nothing sent after the exception;
\* once stopped nothing of the run changes; and a new run begins at the first
\* section with no script variable bound.
C5_RunToCompletionOrAbort ==
    /\ [](/\ status = "done" => emitted = ElementOrder /\ pc = "end"
          /\ status = "aborted" =>
                /\ emitted[Len(emitted)] = "exception"
                /\ IsPrefix(SubSeq(emitted, 1, Len(emitted) - 1), ElementOrder)
                /\ Len(emitted) - 1 < Len(ElementOrder)
                /\ \A e \in Range(ElementOrder) \ Range(emitted) : ~Shown(e)
          /\ Sent("exception") => status = "aborted")
    /\ [][/\ status = "aborted" /\ status' = "aborted" =>
                UNCHANGED <<script, page, emitted, pc>>
          /\ status # "running" /\ status' = "running" =>
                pc' = "load" /\ script' = EmptyScript /\ emitted' = <<>>
          /\ status # "running" /\ status' # "running" => status' = status]_vars

\* A run stopped by the missing file, started by an interaction after an
\* earlier run had stopped.
C5_Witness ==
    /\ renders = 2
    /\ status = "aborted"
    /\ pc = "load"
    /\ page["exception"] = Some("FileNotFoundError")
    /\ emitted = <<"title", "exception">>

\* A numeric column of the frame whose cells all hold one value.
ConstantColumns(frame) ==
    {c \in 1..NCols(frame) :
        /\ IsNumericDtype(frame.dtypes[c])
        /\ NRows(frame) >= 1
        /\ \A r \in 1..NRows(frame) :
              frame.rows[r][c].k = "int" /\ frame.rows[r][c] = frame.rows[1][c]}

C7_SlidersIndependent ==
    /\ [](/\ slider_raw \in MinRows..MaxRows
          /\ slider_std \in MinRowsStd..MaxRowsStd
          /\ renders = 1 => slider_raw = DefaultRows /\ slider_std = DefaultRowsStd)
    /\ [][/\ slider_raw' # slider_raw => slider_std' = slider_std
          /\ slider_std' # slider_std => slider_raw' = slider_raw
          /\ (/\ Shown("std_preview") /\ page'["std_preview"] # None
              /\ page'["std_slider"] = page["std_slider"])
                => page'["std_preview"] = page["std_preview"]
          /\ (/\ Shown("raw_preview") /\ page'["raw_preview"] # None
              /\ page'["raw_slider"] = page["raw_slider"])
                => page'["raw_preview"] = page["raw_preview"]]_vars

\* The raw slider has been moved, the other has not, and the run after the
\* move has sent the standardized preview of a table longer than either value.
C7_Witness ==
    /\ renders >= 2
    /\ slider_raw = MinRows
    /\ slider_std = DefaultRowsStd
    /\ Sent("std_preview")
    /\ page["raw_slider"] = Some(MinRows)
    /\ page["std_slider"] = Some(DefaultRowsStd)
    /\ NRows(cache[1]) > MinRows
    /\ Len(page["raw_preview"][1].rows) # Len(page["std_preview"][1].rows)

C9_Shapes ==
    (/\ cache # None
     /\ Len(NumericColumns(cache[1])) >= NComponents
     /\ status # "running")
        => LET d == cache[1]
               numeric == NumericColumns(d)
               k == Len(numeric)
           IN  /\ Shown("summary")
               /\ Len(page["summary"][1].columns) = NCols(d)
               /\ Shown("heatmap")
               /\ page["heatmap"][1].columns = numeric
               /\ page["heatmap"][1].index = numeric
               /\ Len(page["heatmap"][1].cells) = k
               /\ script.df_standardized # None
               /\ script.df_standardized[1].columns = numeric
               /\ NRows(script.df_standardized[1]) = NRows(d)
               /\ script.pca_df # None
               /\ script.pca_df[1].columns = <<"PC1", "PC2">>
               /\ NRows(script.pca_df[1]) = NRows(d)

\* C10: the sections run in the one fixed order, each after all before it
\* have sent their elements, each once per run; and the PCA table is the
\* projection of the centred rows of the standardized matrix.
C10_FixedOrder ==
    /\ [](/\ status = "running" =>
                \E i \in 1..Len(Steps) : pc = Steps[i] /\ emitted = SentBefore(i)
          /\ status = "done" => pc = "end" /\ emitted = SentBefore(Len(Steps) + 1)
          /\ script.pca_df # None =>
                LET z == script.df_standardized[1]
                    out == script.pca_df[1]
                IN  /\ NRows(out) = NRows(z)
                    /\ \A r \in 1..NRows(z) : \A e \in 1..NComponents :
                          /\ out.rows[r][e].axis = e
                          /\ \A j \in 1..NCols(z) :
                                out.rows[r][e].of[j] = NRows(z) * z.rows[r][j].num)
    /\ [][(status = "running" /\ pc' # pc) =>
             (status' = "running" \/ status' = "done") /\ pc' = Successor(pc)]_vars

\* A run that has gone through every section, on data that varies.
C10_Witness ==
    /\ status = "done"
    /\ emitted = ElementOrder
    /\ script.pca_df # None
    /\ \E r \in 1..NRows(script.pca_df[1]) : \E j \in 1..NCols(script.df_standardized[1]) :
          script.pca_df[1].rows[r][1].of[j] # 0
====
